---- MODULE Spec2Model ----
(***************************************************************************)
(* dwp: a Diceware number generator in two variants.                       *)
(*   variant "rand" is src/dwp.go            (crypto/rand, masked modulo)  *)
(*   variant "tpm"  is src/unnamed/part_000  (TPM GetRandom, rejection)    *)
(* The module models main, generateDicewareNumber, secureRandInt and       *)
(* loadDictionary of both files as one sequential state machine.           *)
(***************************************************************************)
EXTENDS Integers, Sequences, FiniteSets, TLC

VARIABLES
    variant,          \* which source file runs: "rand" or "tpm"
    pc,               \* position of the single thread of control
    rolls,            \* *rolls, the -r flag
    dictFile,         \* *dictFile, the -d flag ("" or a file of Files)
    showPassphrase,   \* *showPassphrase, the -p flag
    separator,        \* *separator, the -s flag (tpm), " " hardcoded (rand)
    tpm,              \* the TPM handle rwc: "unopened", "open", "closed"
    opens,            \* number of successful tpm2.OpenTPM calls
    deferred,         \* whether `defer rwc.Close()` has been registered
    err,              \* main's view of the last error: "nil", "open", "dict", "read"
    dict,             \* main's dict: [nil |-> BOOLEAN, map |-> number -> word]
    passphraseWords,  \* main's passphraseWords
    i,                \* main's loop counter
    dicewareNumber,   \* value returned by generateDicewareNumber
    result,           \* generateDicewareNumber's result
    j,                \* generateDicewareNumber's loop counter i
    rollsHist,        \* history: sampler results of the current number
    max,              \* secureRandInt's argument max
    maxValid,         \* secureRandInt's maxValid (tpm)
    random,           \* the raw value last read from the entropy source: <<>> or <<v>>
    ret,              \* secureRandInt's return: [val |-> int32, err |-> BOOLEAN]
    calls,            \* history: number of secureRandInt calls of this run
    accepted,         \* history: number of secureRandInt calls that returned a value
    stdout,           \* lines written to standard output
    stderr,           \* messages written to standard error
    exitCode          \* process exit status, Nil while running

vars == << variant, pc, rolls, dictFile, showPassphrase, separator, tpm, opens,
           deferred, err, dict, passphraseWords, i, dicewareNumber, result, j,
           rollsHist, max, maxValid, random, ret, calls, accepted,
           stdout, stderr, exitCode >>

\* "no value yet" for maxValid and exitCode
Nil == 0 - 1

(***************************************************************************)
(* Bounds and program constants                                            *)
(***************************************************************************)
MaxRolls == 2                 \* largest -r value explored
MaxArg == 257                 \* largest max handed to secureRandInt on its own
numDice == 5                  \* dice per Diceware number
DieSides == 6                 \* the max main's call chain passes to secureRandInt
ByteMax == 255                \* largest value of a byte / uint8
MaxInt31 == 2147483647        \* 0x7FFFFFFF

Byte == 0..ByteMax

\* Bytes the TPM returns in the whole-program specification: accepted bytes
\* giving the digits 1 and 6, and the first rejected byte.
MainBytes == {0, 251, 252}

\* 32-bit words crypto/rand returns in the whole-program specification: a
\* negative word (masked to 2^31-3, digit 6) and a positive word (digit 1).
MainWords == {-3, 6}

\* Raw values for one generateDicewareNumber call on its own: every roll
\* 0..5 can come out, from small and from large raw values, and the tpm
\* variant can draw every byte of the rejected range.
GenBytes == (0..5) \cup (251..ByteMax)
GenWords == {-MaxInt31 - 1, -3, 1, 2, 3, 4, MaxInt31}

\* Words for the sampler on its own: both ends of the int32 range and
\* values around small multiples of the bound.
SamplerWords == {-MaxInt31 - 1, -MaxInt31, -3, -1, 0, 1, 5, 6, 7, ByteMax,
                 ByteMax + 1, MaxInt31 - 1, MaxInt31}

(***************************************************************************)
(* secureRandInt                                                           *)
(***************************************************************************)
\* uint8(max): conversion of an int32 to uint8 keeps the low 8 bits.
Uint8(m) == m % (ByteMax + 1)

\* Mutant of MaxValid: the remainder is not subtracted, only byte 255 is discarded.
MaxValidNoRemainder(m) == ByteMax

\* part_000:85  maxValid := byte(255 - (255 % uint8(max)))
MaxValid(m) == ByteMax - (ByteMax % Uint8(m))

\* part_000:93  the byte is discarded when random[0] >= maxValid
Rejected(b, mv) == b >= mv

\* part_000:97  int32(random[0] % uint8(max))
TpmValue(b, m) == b % Uint8(m)

\* dwp.go:89  n = n & 0x7FFFFFFF on a two's complement int32
Mask31(n) == IF n >= 0 THEN n ELSE n + MaxInt31 + 1

\* dwp.go:90  n % max
RandValue(n, m) == Mask31(n) % m

NoRet == [val |-> 0, err |-> FALSE]

\* Entry of secureRandInt(max).  In the tpm variant maxValid is computed
\* first; 255 % uint8(max) is an integer division by zero when uint8(max) = 0,
\* a run-time panic.
secureRandInt(m) ==
    /\ max' = m
    /\ random' = << >>
    /\ ret' = NoRet
    /\ calls' = calls + 1
    /\ UNCHANGED accepted
    /\ IF variant = "tpm"
       THEN IF Uint8(m) = 0
            THEN /\ pc' = "panic"
                 /\ maxValid' = Nil
            ELSE /\ pc' = "rand"
                 /\ maxValid' = MaxValid(m)
       ELSE /\ pc' = "rand"
            /\ maxValid' = Nil

\* part_000:88-97  one tpm2.GetRandom(rwc, 1) that succeeds with byte b
TpmGetRandom(S) ==
    /\ pc = "rand"
    /\ variant = "tpm"
    /\ \E b \in S :
        /\ random' = << b >>
        /\ IF Rejected(b, maxValid)
           THEN /\ pc' = "rand"
                /\ UNCHANGED << ret, accepted >>
           ELSE /\ ret' = [val |-> TpmValue(b, max), err |-> FALSE]
                /\ accepted' = accepted + 1
                /\ pc' = "ret"
    /\ UNCHANGED << variant, rolls, dictFile, showPassphrase, separator, tpm,
                    opens, deferred, err, dict, passphraseWords, i,
                    dicewareNumber, result, j, rollsHist, max, maxValid, calls,
                    stdout, stderr, exitCode >>

\* part_000:88-91  tpm2.GetRandom fails
TpmGetRandomFail ==
    /\ pc = "rand"
    /\ variant = "tpm"
    /\ random' = << >>
    /\ ret' = [val |-> 0, err |-> TRUE]
    /\ pc' = "ret"
    /\ UNCHANGED << variant, rolls, dictFile, showPassphrase, separator, tpm,
                    opens, deferred, err, dict, passphraseWords, i,
                    dicewareNumber, result, j, rollsHist, max, maxValid,
                    calls, accepted, stdout, stderr, exitCode >>

\* dwp.go:84-90  binary.Read succeeds with the 32-bit word n
RandRead(S) ==
    /\ pc = "rand"
    /\ variant = "rand"
    /\ \E n \in S :
        /\ random' = << n >>
        /\ ret' = [val |-> RandValue(n, max), err |-> FALSE]
    /\ accepted' = accepted + 1
    /\ pc' = "ret"
    /\ UNCHANGED << variant, rolls, dictFile, showPassphrase, separator, tpm,
                    opens, deferred, err, dict, passphraseWords, i,
                    dicewareNumber, result, j, rollsHist, max, maxValid,
                    calls, stdout, stderr, exitCode >>

\* dwp.go:85-88  binary.Read fails
RandReadFail ==
    /\ pc = "rand"
    /\ variant = "rand"
    /\ random' = << >>
    /\ ret' = [val |-> 0, err |-> TRUE]
    /\ pc' = "ret"
    /\ UNCHANGED << variant, rolls, dictFile, showPassphrase, separator, tpm,
                    opens, deferred, err, dict, passphraseWords, i,
                    dicewareNumber, result, j, rollsHist, max, maxValid,
                    calls, accepted, stdout, stderr, exitCode >>

(***************************************************************************)
(* loadDictionary                                                          *)
(***************************************************************************)
EmptyMap == [n \in {} |-> ""]

\* A line of a dictionary file after strings.Split(line, "\t"): the number of
\* parts, whether Sscanf("%d") parses parts[0], the number parsed, and parts[1].
Line(parts, keyOk, key, word) ==
    [parts |-> parts, keyOk |-> keyOk, key |-> key, word |-> word]

\* The files a -d path can name.
FileSystem(name) ==
    CASE name = "missing" ->
           [opens |-> FALSE, readErr |-> FALSE, lines |-> << >>]
      [] name = "truncated" ->
           [opens |-> TRUE, readErr |-> TRUE,
            lines |-> << Line(2, TRUE, 11111, "apple") >>]
      [] OTHER ->
           [opens |-> TRUE, readErr |-> FALSE,
            lines |-> << Line(2, TRUE, 11111, "acorn"),
                         Line(1, TRUE, 16161, ""),
                         Line(2, FALSE, 0, "bogus"),
                         Line(3, TRUE, 66666, "zebra"),
                         Line(2, TRUE, 11111, "apple") >>]

DictFiles == {"", "missing", "truncated", "words"}

\* part_000:110-119 / dwp.go:102-111  the scanner loop
RECURSIVE ScanLines(_, _)
ScanLines(lines, d) ==
    IF lines = << >>
    THEN d
    ELSE LET l == Head(lines)
         IN  ScanLines(Tail(lines),
                       IF l.parts >= 2 /\ l.keyOk
                       THEN (l.key :> l.word) @@ d
                       ELSE d)

loadDictionary(name) ==
    LET file == FileSystem(name)
    IN  IF ~file.opens \/ file.readErr
        THEN [err |-> TRUE, map |-> EmptyMap]
        ELSE [err |-> FALSE, map |-> ScanLines(file.lines, EmptyMap)]

(***************************************************************************)
(* main and generateDicewareNumber                                         *)
(***************************************************************************)
\* strings.Join(words, sep): the words with sep between neighbours
RECURSIVE Join(_, _)
Join(words, sep) ==
    IF Len(words) <= 1
    THEN words
    ELSE << Head(words), sep >> \o Join(Tail(words), sep)

NumberLine(index, number, suffix) ==
    [kind |-> "number", index |-> index, number |-> number, suffix |-> suffix]

PassphraseLine(text) ==
    [kind |-> "passphrase", index |-> 0, number |-> 0, suffix |-> text]

\* Mutant of RollsInvalid: -r 0 is let through.
RollsInvalidBelowZero(r) == r < 0

\* dwp.go:23 / part_000:22
RollsInvalid(r) == r < 1

\* Mutant of LoopContinues: one iteration too many.
LoopContinuesInclusive(k, r) == k <= r

\* dwp.go:46 / part_000:48
LoopContinues(k, r) == k < r

\* Mutant of Accumulate: roll++ is left out.
AccumulateNoShift(res, roll) == res * 10 + roll

\* dwp.go:77-78 / part_000:78-79  roll++ ; result = result*10 + int(roll)
Accumulate(res, roll) == res * 10 + (roll + 1)

\* Mutant of ValueOnError: the partial result is returned beside the error.
PartialOnError(res) == res

\* dwp.go:75 / part_000:76  the value returned beside the error
ValueOnError(res) == 0

\* Mutant of AppendWord: the word is put in front.
PrependWord(words, word) == << word >> \o words

\* dwp.go:56 / part_000:58
AppendWord(words, word) == Append(words, word)

\* os.Exit(code): the process ends at once, deferred calls do not run
Exit(code) ==
    /\ pc' = "exited"
    /\ exitCode' = code
    /\ UNCHANGED tpm

\* main returns: deferred calls run, the process exits with status 0
Return ==
    /\ pc' = "exited"
    /\ exitCode' = 0
    /\ tpm' = IF deferred THEN "closed" ELSE tpm

samplerVars == << max, maxValid, random, ret, calls, accepted >>
genVars == << dicewareNumber, result, j, rollsHist >>
flagVars == << variant, rolls, dictFile, showPassphrase, separator >>

\* dwp.go:23-27 / part_000:22-26
CheckRolls ==
    /\ pc = "main"
    /\ IF RollsInvalid(rolls)
       THEN /\ stderr' = stderr \o << "rolls", "usage" >>
            /\ Exit(1)
       ELSE /\ pc' = (IF variant = "tpm" THEN "open" ELSE "load")
            /\ UNCHANGED << stderr, exitCode, tpm >>
    /\ UNCHANGED << flagVars, opens, deferred, err, dict, passphraseWords, i,
                    genVars, samplerVars, stdout >>

\* part_000:29-34  tpm2.OpenTPM succeeds; defer rwc.Close()
OpenTPM ==
    /\ pc = "open"
    /\ tpm' = "open"
    /\ opens' = opens + 1
    /\ deferred' = TRUE
    /\ pc' = "load"
    /\ UNCHANGED << flagVars, err, dict, passphraseWords, i, genVars,
                    samplerVars, stdout, stderr, exitCode >>

\* part_000:29-33  tpm2.OpenTPM fails: message, then `return`
OpenTPMFail ==
    /\ pc = "open"
    /\ err' = "open"
    /\ stderr' = Append(stderr, "open")
    /\ Return
    /\ UNCHANGED << flagVars, opens, deferred, dict, passphraseWords, i,
                    genVars, samplerVars, stdout >>

\* dwp.go:30-38 / part_000:36-43
LoadDict ==
    /\ pc = "load"
    /\ IF dictFile = ""
       THEN /\ pc' = "loop"
            /\ UNCHANGED << dict, err, stderr, exitCode, tpm >>
       ELSE LET r == loadDictionary(dictFile)
            IN  IF r.err
                THEN /\ err' = "dict"
                     /\ stderr' = Append(stderr, "dict")
                     /\ Exit(1)
                     /\ UNCHANGED dict
                ELSE /\ dict' = [nil |-> FALSE, map |-> r.map]
                     /\ pc' = "loop"
                     /\ UNCHANGED << err, stderr, exitCode, tpm >>
    /\ UNCHANGED << flagVars, opens, deferred, passphraseWords, i, genVars,
                    samplerVars, stdout >>

\* dwp.go:72-73,80 / part_000:73-74,81  the loop test of
\* generateDicewareNumber with its loop counter at k and its result at res:
\* the next secureRandInt(6) call, or the return of the result.
GenLoop(k, res) ==
    IF k < numDice
    THEN /\ secureRandInt(DieSides)
         /\ UNCHANGED dicewareNumber
    ELSE /\ dicewareNumber' = res
         /\ pc' = "print"
         /\ random' = << >>
         /\ UNCHANGED << max, maxValid, ret, calls, accepted >>

\* dwp.go:46-47,71-73 / part_000:48-49,72-74  main's loop test, the call of
\* generateDicewareNumber and its first loop test
MainLoop ==
    /\ pc = "loop"
    /\ LoopContinues(i, rolls)
    /\ result' = 0
    /\ j' = 0
    /\ rollsHist' = << >>
    /\ GenLoop(0, 0)
    /\ UNCHANGED << flagVars, tpm, opens, deferred, err, dict, passphraseWords,
                    i, stdout, stderr, exitCode >>

\* dwp.go:72-80 / part_000:73-81  secureRandInt has returned: the error is
\* passed on, or the roll is accumulated and the loop goes on
GenAfterRand ==
    /\ pc = "ret"
    /\ IF ret.err
       THEN /\ dicewareNumber' = ValueOnError(result)
            /\ err' = "read"
            /\ pc' = "print"
            /\ random' = << >>
            /\ UNCHANGED << result, j, rollsHist, max, maxValid, ret, calls,
                            accepted >>
       ELSE /\ result' = Accumulate(result, ret.val)
            /\ j' = j + 1
            /\ rollsHist' = Append(rollsHist, ret.val)
            /\ GenLoop(j + 1, Accumulate(result, ret.val))
            /\ UNCHANGED err
    /\ UNCHANGED << flagVars, tpm, opens, deferred, dict, passphraseWords, i,
                    stdout, stderr, exitCode >>

\* dwp.go:48-61 / part_000:50-63  generateDicewareNumber has returned
MainAfterGen ==
    /\ pc = "print"
    /\ IF err # "nil"
       THEN /\ stderr' = Append(stderr, "gen")
            /\ Exit(1)
            /\ UNCHANGED << stdout, passphraseWords, i, genVars >>
       ELSE /\ IF dict.nil
               THEN /\ stdout' = Append(stdout,
                                   NumberLine(i + 1, dicewareNumber, << >>))
                    /\ UNCHANGED passphraseWords
               ELSE IF dicewareNumber \in DOMAIN dict.map
                    THEN LET word == dict.map[dicewareNumber]
                         IN  /\ stdout' = Append(stdout,
                                   NumberLine(i + 1, dicewareNumber,
                                              << "word", word >>))
                             /\ passphraseWords' =
                                   AppendWord(passphraseWords, word)
                    ELSE /\ stdout' = Append(stdout,
                                   NumberLine(i + 1, dicewareNumber,
                                              << "notfound", dicewareNumber >>))
                         /\ UNCHANGED passphraseWords
            /\ i' = i + 1
            /\ dicewareNumber' = 0
            /\ result' = 0
            /\ j' = 0
            /\ rollsHist' = << >>
            /\ pc' = "loop"
            /\ UNCHANGED << stderr, exitCode, tpm >>
    /\ UNCHANGED << flagVars, opens, deferred, err, dict, samplerVars >>

\* dwp.go:46,65-68 / part_000:48,66-69  the loop ends; passphrase; main returns
MainFinish ==
    /\ pc = "loop"
    /\ ~LoopContinues(i, rolls)
    /\ IF showPassphrase /\ Len(passphraseWords) > 0
       THEN stdout' = Append(stdout,
                        PassphraseLine(Join(passphraseWords, separator)))
       ELSE UNCHANGED stdout
    /\ Return
    /\ UNCHANGED << flagVars, opens, deferred, err, dict, passphraseWords, i,
                    genVars, samplerVars, stderr >>

\* secureRandInt called on its own with an arbitrary max
SamplerCall ==
    /\ pc = "call"
    /\ \E m \in 1..MaxArg : secureRandInt(m)
    /\ UNCHANGED << flagVars, tpm, opens, deferred, err, dict, passphraseWords,
                    i, genVars, stdout, stderr, exitCode >>

(***************************************************************************)
(* Specifications                                                          *)
(***************************************************************************)
Variants == {"rand", "tpm"}

InitCommon ==
    /\ variant \in Variants
    /\ tpm = "unopened"
    /\ opens = 0
    /\ deferred = FALSE
    /\ err = "nil"
    /\ dict = [nil |-> TRUE, map |-> EmptyMap]
    /\ passphraseWords = << >>
    /\ i = 0
    /\ dicewareNumber = 0
    /\ result = 0
    /\ j = 0
    /\ rollsHist = << >>
    /\ max = 0
    /\ maxValid = Nil
    /\ random = << >>
    /\ ret = NoRet
    /\ calls = 0
    /\ accepted = 0
    /\ stdout = << >>
    /\ stderr = << >>
    /\ exitCode = Nil

\* The state after flag.Parse()
Init ==
    /\ InitCommon
    /\ pc = "main"
    /\ rolls \in -1..MaxRolls
    /\ dictFile \in DictFiles
    /\ showPassphrase \in BOOLEAN
    /\ separator \in (IF variant = "tpm" /\ showPassphrase /\ dictFile = "words"
                     THEN {" ", "-"}
                     ELSE {" "})

\* One step of the program, the entropy source returning a byte of bytes
\* (tpm) or a word of words (rand), or failing.
Program(bytes, words) ==
    \/ CheckRolls
    \/ OpenTPM
    \/ OpenTPMFail
    \/ LoadDict
    \/ MainLoop
    \/ TpmGetRandom(bytes)
    \/ TpmGetRandomFail
    \/ RandRead(words)
    \/ RandReadFail
    \/ GenAfterRand
    \/ MainAfterGen
    \/ MainFinish

Next == Program(MainBytes, MainWords)

Spec == Init /\ [][Next]_vars

\* A run with -r 1 and no dictionary: one generateDicewareNumber call, with
\* every roll possible at every position.
GenInit ==
    /\ InitCommon
    /\ pc = "main"
    /\ rolls = 1
    /\ dictFile = ""
    /\ showPassphrase = FALSE
    /\ separator = " "

GenNext == Program(GenBytes, GenWords)

GenSpec == GenInit /\ [][GenNext]_vars

\* secureRandInt on its own: any max, every byte
SamplerInit ==
    /\ InitCommon
    /\ pc = "call"
    /\ rolls = 1
    /\ dictFile = ""
    /\ showPassphrase = FALSE
    /\ separator = " "

SamplerNext ==
    \/ SamplerCall
    \/ TpmGetRandom(Byte)
    \/ TpmGetRandomFail
    \/ RandRead(SamplerWords)
    \/ RandReadFail

SamplerSpec == SamplerInit /\ [][SamplerNext]_vars

\* The sequential program keeps running, and the entropy source does not
\* return discarded bytes for ever: every step but a discarded draw moves pc.
FairSpec == Spec /\ WF_vars(Next /\ pc' # pc)

(***************************************************************************)
(* Properties of secureRandInt (SamplerSpec)                               *)
(***************************************************************************)
\* The reference limit of the rejection sampler: the largest multiple of m
\* that fits in a byte's range.
Limit(m) == (ByteMax + 1) - ((ByteMax + 1) % m)

Returned == pc = "ret" /\ ~ret.err

\* The last raw value was discarded and the loop draws again.
Discarded == pc = "rand" /\ random # << >>

\* C1: for every max in 2..256 and every byte the TPM returns, secureRandInt
\* (tpm) never returns a value >= max and never returns a value computed from
\* a byte >= 256 - (256 mod max): such a byte is discarded and another drawn.
C1_NeverOutOfRange ==
    (variant = "tpm" /\ max \in 2..(ByteMax + 1) /\ random # << >>) =>
        /\ Returned => /\ ret.val \in 0..(max - 1)
                       /\ random[1] < Limit(max)
        /\ random[1] >= Limit(max) => Discarded

\* The first byte of the rejected range was drawn for max = 6: it is not
\* returned, the loop draws again.
C1_Witness ==
    /\ variant = "tpm"
    /\ max = DieSides
    /\ random = << Limit(DieSides) >>
    /\ Discarded
    /\ ret = NoRet

\* At max = 256 the tpm variant computes uint8(256) = 0 and 255 % 0: it panics
\* before any byte is drawn, so C1 holds there without a value ever returned.
SamplerPanicsAt256 ==
    (variant = "tpm" /\ max = ByteMax + 1) => (pc = "panic" /\ random = << >>)

\* Number of raw values in 0..top congruent to r modulo m (r <= top), not
\* counting r itself: with m = 1 all 2^31 masked words map to 0, one more
\* than the largest integer TLC represents.
CountAbove(top, m, r) == (top - r) \div m

\* Number of accepted raw source values that secureRandInt maps to r, not
\* counting the raw value r itself.
Preimages(v, m, r) ==
    IF v = "tpm"
    THEN Cardinality({ b \in Byte :
                         ~Rejected(b, MaxValid(m)) /\ TpmValue(b, m) = r }) - 1
    ELSE CountAbove(MaxInt31, m, r)

\* The closed form CountAbove agrees with counting on the bytes, and grows by
\* one with each further raw value that secureRandInt (rand) maps to r.
CountAboveAgrees ==
    (pc = "rand" /\ random = << >> /\ max <= ByteMax) =>
        \A r \in 0..(max - 1) :
            /\ CountAbove(ByteMax, max, r) + 1
                 = Cardinality({ b \in Byte : b % max = r })
            /\ \A n \in SamplerWords :
                 (RandValue(n, max) = r /\ Mask31(n) >= max) =>
                    CountAbove(Mask31(n), max, r)
                      = CountAbove(Mask31(n) - max, max, r) + 1

\* The tpm variant alone has no modulo bias, and every result has a preimage.
TpmUnbiased ==
    (variant = "tpm" /\ pc = "rand" /\ random = << >> /\ max <= ByteMax) =>
        \A r \in 0..(max - 1) :
            /\ Preimages("tpm", max, r) = Preimages("tpm", max, 0)
            /\ Preimages("tpm", max, r) >= 0

\* C2: for any max in 1..255, in each variant of secureRandInt, the number of
\* accepted raw source values that map to result r is the same for every r in
\* [0, max), and no result lies outside [0, max).
C2_NoModuloBias ==
    (max \in 1..ByteMax) =>
        /\ (pc = "rand" /\ random = << >>) =>
              \A r \in 0..(max - 1) :
                  Preimages(variant, max, r) = Preimages(variant, max, 0)
        /\ Returned => ret.val \in 0..(max - 1)

\* C9: secureRandInt (tpm) agrees with the reference algorithm for every max
\* in 1..255 and every byte b: b is accepted and b mod max returned if and only
\* if b < limit, and discarded and redrawn if and only if b >= limit.
C9_AgreesWithReference ==
    (variant = "tpm" /\ max \in 1..ByteMax /\ random # << >>) =>
        /\ (Returned /\ ret.val = random[1] % max) <=> random[1] < Limit(max)
        /\ Discarded <=> random[1] >= Limit(max)

(***************************************************************************)
(* Properties of the whole program (Spec)                                  *)
(***************************************************************************)
Exited == pc = "exited"

NumberLines == SelectSeq(stdout, LAMBDA l : l.kind = "number")

PassphrasePrinted == \E k \in 1..Len(stdout) : stdout[k].kind = "passphrase"

RECURSIVE Pow10(_)
Pow10(k) == IF k = 0 THEN 1 ELSE 10 * Pow10(k - 1)

\* The k-th decimal digit of the numDice-digit number n, most significant first.
Digit(n, k) == (n \div Pow10(numDice - k)) % 10

\* The decimal number whose digits are the sampler results plus one.
RECURSIVE Compose(_)
Compose(h) ==
    IF h = << >>
    THEN 0
    ELSE 10 * Compose(SubSeq(h, 1, Len(h) - 1)) + h[Len(h)] + 1

\* C3: whenever generateDicewareNumber(5) returns without error the result is
\* a 5-digit number in 11111..66666 whose every digit lies in 1..6, and its
\* k-th digit is the k-th sampler result plus 1 (result = result*10 + digit
\* at every step).
C3_DigitsFromRolls ==
    /\ pc \in {"rand", "ret"} =>
          /\ Len(rollsHist) = j
          /\ result = Compose(rollsHist)
    /\ (pc = "print" /\ err = "nil") =>
          /\ dicewareNumber \in 11111..66666
          /\ Len(rollsHist) = numDice
          /\ \A k \in 1..numDice :
                /\ Digit(dicewareNumber, k) \in 1..6
                /\ Digit(dicewareNumber, k) = rollsHist[k] + 1

C3_Witness ==
    /\ pc = "print"
    /\ err = "nil"
    /\ dicewareNumber = 31426
    /\ rollsHist = << 2, 0, 3, 1, 5 >>

FatalError == rolls < 1 \/ err # "nil"

\* C4: every fatal error (rolls < 1, dictionary failure, entropy source
\* unavailable at open, entropy read failure) ends the process with a message
\* on standard error and a non-zero exit code; exit code 0 is reached only on
\* a run in which no fatal error occurred.
C4_FatalExitsNonZero ==
    Exited =>
        /\ FatalError => stderr # << >> /\ exitCode # 0
        /\ exitCode = 0 => ~FatalError

\* C5: in the tpm variant the handle is acquired at most once per run, and on
\* every path by which the process terminates after the handle was opened the
\* handle has been closed before the process exits.
C5_HandleClosedOnExit ==
    /\ opens <= 1
    /\ (Exited /\ opens > 0) => tpm = "closed"

InSeq(x, seq) == \E k \in 1..Len(seq) : seq[k] = x

\* C6: when -r is less than 1, or when a dictionary path is given and loading
\* it fails, the process exits with code 1 without generating or printing any
\* Diceware number: no sampler call and no number line before the exit, and
\* with -r < 1 the usage text is on standard error.
C6_NoNumbersOnEarlyExit ==
    /\ rolls < 1 =>
          /\ pc \in {"main", "exited"}
          /\ Exited => exitCode = 1 /\ InSeq("usage", stderr)
    /\ err = "dict" => Exited /\ exitCode = 1 /\ dictFile # ""
    /\ (rolls < 1 \/ err = "dict") => calls = 0 /\ stdout = << >>

C6_Witness ==
    /\ variant = "tpm"
    /\ Exited
    /\ err = "dict"
    /\ dictFile = "truncated"
    /\ tpm = "open"

\* The dictionary words of the printed numbers that are keys, in print order.
RECURSIVE WordsOf(_)
WordsOf(lines) ==
    IF lines = << >>
    THEN << >>
    ELSE LET l == Head(lines)
         IN  (IF l.kind = "number" /\ ~dict.nil /\ l.number \in DOMAIN dict.map
              THEN << dict.map[l.number] >>
              ELSE << >>) \o WordsOf(Tail(lines))

\* C7 as stated: ... the passphrase line is printed if and only if -p is set
\* and at least one word was matched, and only after all number lines.
C7_PassphraseIffRequested ==
    /\ passphraseWords = WordsOf(stdout)
    /\ PassphrasePrinted => Len(NumberLines) = rolls
    /\ Exited => (PassphrasePrinted <=> (showPassphrase /\ Len(passphraseWords) > 0))

\* C7, amended: at every point of the generation loop the passphrase word list
\* is, in generation order, the dictionary words of the generated numbers that
\* are keys (a miss adds nothing and does not stop the run); the passphrase
\* line is printed if and only if -p is set, at least one word was matched and
\* no generation error stopped the run, and only after all number lines.
C7_PassphraseWords ==
    /\ passphraseWords = WordsOf(stdout)
    /\ \A k \in 1..Len(stdout) :
          (stdout[k].kind = "number" /\ ~dict.nil) =>
              stdout[k].suffix =
                  (IF stdout[k].number \in DOMAIN dict.map
                   THEN << "word", dict.map[stdout[k].number] >>
                   ELSE << "notfound", stdout[k].number >>)
    /\ PassphrasePrinted =>
          /\ Exited
          /\ Len(NumberLines) = rolls
          /\ stdout[Len(stdout)] =
                PassphraseLine(Join(passphraseWords, separator))
          /\ \A k \in 1..(Len(stdout) - 1) : stdout[k].kind = "number"
    /\ Exited =>
          (PassphrasePrinted <=>
              (showPassphrase /\ Len(passphraseWords) > 0 /\ err # "read"))

C7_Witness ==
    /\ Exited
    /\ PassphrasePrinted
    /\ passphraseWords = << "zebra", "apple" >>
    /\ separator = "-"
    /\ stdout[Len(stdout)].suffix = << "zebra", "-", "apple" >>

\* C8: if the entropy source fails on a draw while the i-th number is being
\* generated, generateDicewareNumber makes no further draw and returns an
\* error with value 0, and the run stops: exactly the i-1 earlier number lines
\* were printed, no later line, no passphrase line, and the exit code is 1.
C8_StopsOnReadFailure ==
    ret.err =>
        /\ pc \in {"ret", "print", "exited"}
        /\ calls = accepted + 1
        /\ Len(stdout) = accepted \div numDice
        /\ \A k \in 1..Len(stdout) :
              stdout[k].kind = "number" /\ stdout[k].index = k
        /\ pc # "ret" => dicewareNumber = 0 /\ err = "read"
        /\ Exited => exitCode = 1 /\ InSeq("gen", stderr)

C8_Witness ==
    /\ Exited
    /\ ret.err
    /\ accepted = numDice + 2
    /\ Len(stdout) = 1
    /\ exitCode = 1

\* C10 as stated: for rolls >= 1, if the entropy source never fails, the run
\* ends with exit code 0 having printed exactly `rolls` number lines.
C10_ExitsZeroWithAllLines ==
    (Exited /\ rolls >= 1 /\ err \notin {"open", "read"}) =>
        exitCode = 0 /\ Len(NumberLines) = rolls

\* Each number is fully generated (numDice accepted draws) before the first
\* draw for the next one; discarded draws do not reach the caller; the lines
\* are indexed 1, 2, ... in increasing order.
C10_Sequential ==
    /\ \A k \in 1..Len(NumberLines) : NumberLines[k].index = k
    /\ Len(NumberLines) = i
    /\ Len(rollsHist) = j
    /\ j <= numDice
    /\ pc \in {"rand", "ret", "print"} =>
          accepted = numDice * i + j + (IF Returned THEN 1 ELSE 0)
    /\ pc \in {"main", "open", "load", "loop", "exited"} /\ ~ret.err =>
          accepted = numDice * i

\* C10, amended: for rolls >= 1, if the dictionary (when one is given) loads,
\* the entropy source never fails and does not return discarded bytes for
\* ever, the run eventually ends with exit code 0 having printed exactly
\* `rolls` number lines indexed 1..rolls in increasing order, each number
\* fully generated before the first draw for the next.
C10_Terminates ==
    /\ []C10_Sequential
    /\ (rolls >= 1) ~>
          (Exited /\ (err # "nil" \/
                      (exitCode = 0 /\ Len(NumberLines) = rolls
                         /\ accepted = numDice * rolls)))

C10_Witness ==
    /\ Exited
    /\ exitCode = 0
    /\ rolls = MaxRolls
    /\ Len(NumberLines) = MaxRolls
    /\ NumberLines[MaxRolls].index = MaxRolls
    /\ accepted = numDice * MaxRolls

====
